---- MODULE Spec2Model ----
(***************************************************************************)
(* Model of main.py: the pipeline that pins the image references of the    *)
(* operator manifest (CSV file) to digests.                                *)
(*                                                                         *)
(* Text is a sequence of one-character strings.  Each configured registry  *)
(* prefix is a long literal without whitespace, quote, newline or '@', and *)
(* none of the three is a substring of another; each is represented by a   *)
(* one-character stand-in ("k", "s", "r").  A digest "sha256:<hex>" is     *)
(* represented by a one-character stand-in ("x", "y").                     *)
(***************************************************************************)
EXTENDS Integers, Sequences, FiniteSets, TLC

VARIABLES
    csv,          \* content of the manifest file on disk
    csv0,         \* history: content of the manifest file when the run started
    pc,           \* position of execute()
    prefix_idx,   \* execute(): index of the prefix being collected
    images,       \* execute(): the working list of references
    i,            \* loop index of pull_images / create_image_map / replace_images
    img_map,      \* the dict of create_image_map, in insertion order
    csv_content,  \* replace_images(): the text held in memory
    log,          \* history: the calls made to the docker client
    inserted      \* history: which characters of csv_content were inserted

vars == <<csv, csv0, pc, prefix_idx, images, i, img_map, csv_content, log, inserted>>

-----------------------------------------------------------------------------
(* Characters *)

NL == "\n"
QUOTE == "\""
SPACE == " "
AT == "@"

\* the three configured prefixes, each by its stand-in
IMAGE_PREFIXES == << <<"k">>, <<"s">>, <<"r">> >>

\* code point order of the characters, as Python compares strings
Ord(c) ==
    CASE c = NL -> 10
      [] c = SPACE -> 32
      [] c = QUOTE -> 34
      [] c = AT -> 64
      [] c = "a" -> 97
      [] c = "k" -> 107
      [] c = "n" -> 110
      [] c = "r" -> 114
      [] c = "s" -> 115
      [] c = "x" -> 120
      [] c = "y" -> 121

\* str.strip() removes these from both ends
IsSpace(c) == c \in {SPACE, NL}

-----------------------------------------------------------------------------
(* Bounds *)

MaxLen == 5
MaxLenQuoted == 7
MaxLenPinned == 5

\* characters a manifest is drawn from
Alphabet == {"k", "s", "a", QUOTE, NL, SPACE}
\* a manifest of one image family, with quoted values
QuotedAlphabet == {"k", QUOTE, NL}
\* a manifest in which some references already carry a digest
PinnedAlphabet == {"k", NL, AT, "x"}

Texts(alphabet, n) == UNION {[1..m -> alphabet] : m \in 0..n}

-----------------------------------------------------------------------------
(* Python string operations *)

\* s[k:k+len(sub)] == sub
MatchAt(s, sub, k) ==
    /\ k >= 1
    /\ k + Len(sub) - 1 <= Len(s)
    /\ \A j \in 1..Len(sub) : s[k + j - 1] = sub[j]

\* sub in s
Contains(s, sub) == \E k \in 1..(Len(s) + 1) : MatchAt(s, sub, k)

\* s.find(sub), 1-based; 0 when absent
Find(s, sub) ==
    IF Contains(s, sub)
    THEN CHOOSE k \in 1..(Len(s) + 1) :
            /\ MatchAt(s, sub, k)
            /\ \A l \in 1..(k - 1) : ~MatchAt(s, sub, l)
    ELSE 0

\* s.endswith(suffix)
EndsWith(s, suffix) == MatchAt(s, suffix, Len(s) - Len(suffix) + 1)

\* a scanner that forgets line.strip()
StripNothing(s) == s

\* s.strip()
Strip(s) ==
    LET keep == {k \in 1..Len(s) : ~IsSpace(s[k])}
    IN IF keep = {} THEN <<>>
       ELSE LET lo == CHOOSE k \in keep : \A l \in keep : k <= l
                hi == CHOOSE k \in keep : \A l \in keep : l <= k
            IN SubSeq(s, lo, hi)

\* file.readlines(): the lines, each with its terminating newline
RECURSIVE ReadLinesFrom(_, _)
ReadLinesFrom(s, k) ==
    IF k > Len(s) THEN <<>>
    ELSE LET ends == {l \in k..Len(s) : s[l] = NL}
             e == IF ends = {} THEN Len(s)
                  ELSE CHOOSE l \in ends : \A m \in ends : l <= m
         IN <<SubSeq(s, k, e)>> \o ReadLinesFrom(s, e + 1)

ReadLines(s) == ReadLinesFrom(s, 1)

\* a < b as Python compares strings
RECURSIVE Less(_, _)
Less(a, b) ==
    IF b = <<>> THEN FALSE
    ELSE IF a = <<>> THEN TRUE
    ELSE IF Head(a) # Head(b) THEN Ord(Head(a)) < Ord(Head(b))
    ELSE Less(Tail(a), Tail(b))

\* sorted(list(set(...)))
RECURSIVE SortedOfSet(_)
SortedOfSet(S) ==
    IF S = {} THEN <<>>
    ELSE LET m == CHOOSE x \in S : \A y \in S \ {x} : Less(x, y)
         IN <<m>> \o SortedOfSet(S \ {m})

\* s.replace(old, new): left to right, matches do not overlap
RECURSIVE ReplaceFrom(_, _, _, _)
ReplaceFrom(s, old, new, k) ==
    IF k > Len(s) THEN <<>>
    ELSE IF MatchAt(s, old, k)
         THEN new \o ReplaceFrom(s, old, new, k + Len(old))
         ELSE <<s[k]>> \o ReplaceFrom(s, old, new, k + 1)

Replace(s, old, new) == ReplaceFrom(s, old, new, 1)

\* s.split(sep)[1] for a one-character sep: the piece between the first
\* and the second separator; absent (IndexError) when s holds no separator
HasSecondPiece(s, sep) == Contains(s, <<sep>>)

SecondPiece(s, sep) ==
    LET rest == SubSeq(s, Find(s, <<sep>>) + 1, Len(s))
        stop == Find(rest, <<sep>>)
    IN IF stop = 0 THEN rest ELSE SubSeq(rest, 1, stop - 1)

-----------------------------------------------------------------------------
(* collect_images *)

\* the reference taken from one line, given that the line holds the prefix
ImageOfLine(raw_line, image_prefix) ==
    LET line == Strip(raw_line)
        start_of_prefix == Find(line, image_prefix)
        img == SubSeq(line, start_of_prefix, Len(line))
    IN IF EndsWith(img, <<QUOTE>>) THEN SubSeq(img, 1, Len(img) - 1) ELSE img

\* the list before deduplication
RawImages(lines, image_prefix) ==
    LET hit == SelectSeq(lines, LAMBDA l : Contains(Strip(l), image_prefix))
    IN [n \in 1..Len(hit) |-> ImageOfLine(hit[n], image_prefix)]

\* a scanner that returns the list as collected
DedupeKeepsAll(imgs) == imgs

\* a scanner that drops repetitions and keeps the order of the lines
DedupeUnsorted(imgs) ==
    LET first == {n \in 1..Len(imgs) : \A m \in 1..(n - 1) : imgs[m] # imgs[n]}
        keep == SelectSeq([n \in 1..Len(imgs) |-> n], LAMBDA n : n \in first)
    IN [n \in 1..Len(keep) |-> imgs[keep[n]]]

\* sorted(list(set(images)))
Dedupe(imgs) == SortedOfSet({imgs[n] : n \in 1..Len(imgs)})

collect_images(text, image_prefix) ==
    Dedupe(RawImages(ReadLines(text), image_prefix))

-----------------------------------------------------------------------------
(* replace_images: the body of the loop over img_map.items() *)

QuotedOld(img_name) == <<QUOTE>> \o img_name \o <<QUOTE>>
\* a replacement that loses the closing quote
QuotedNewUnclosed(img_name, img_digest) ==
    <<QUOTE>> \o img_name \o <<AT>> \o img_digest

QuotedNew(img_name, img_digest) ==
    <<QUOTE>> \o img_name \o <<AT>> \o img_digest \o <<QUOTE>>
EolOld(img_name) == img_name \o <<NL>>
EolNew(img_name, img_digest) == img_name \o <<AT>> \o img_digest \o <<NL>>

ReplaceEntry(content, img_name, img_digest) ==
    Replace(Replace(content, QuotedOld(img_name), QuotedNew(img_name, img_digest)),
            EolOld(img_name), EolNew(img_name, img_digest))

\* the whole loop, over the entries in the order given
RECURSIVE RewriteAll(_, _)
RewriteAll(content, entries) ==
    IF entries = <<>> THEN content
    ELSE RewriteAll(ReplaceEntry(content, Head(entries).name, Head(entries).digest),
                    Tail(entries))

\* history: the marks of the text after s.replace(old, new), where new is
\* old with n characters inserted before its last character
RECURSIVE MarkFrom(_, _, _, _, _)
MarkFrom(s, marks, old, n, k) ==
    IF k > Len(s) THEN <<>>
    ELSE IF MatchAt(s, old, k)
         THEN SubSeq(marks, k, k + Len(old) - 2) \o [m \in 1..n |-> TRUE]
              \o <<marks[k + Len(old) - 1]>> \o MarkFrom(s, marks, old, n, k + Len(old))
         ELSE <<marks[k]>> \o MarkFrom(s, marks, old, n, k + 1)

MarkEntry(content, marks, img_name, img_digest) ==
    LET n == 1 + Len(img_digest)
        m1 == MarkFrom(content, marks, QuotedOld(img_name), n, 1)
        c1 == Replace(content, QuotedOld(img_name), QuotedNew(img_name, img_digest))
    IN MarkFrom(c1, m1, EolOld(img_name), n, 1)

-----------------------------------------------------------------------------
(* The docker client *)

\* the digests the local store may record for an image
Digests == {<<"x">>, <<"y">>}

\* img.attrs["RepoDigests"]: none, or "<repository>@<digest>" entries
RepoDigestsChoices ==
    {<<>>} \cup {<< <<"n", AT>> \o d >> : d \in Digests}

\* img_map[img_name] = digest
DictSet(map, key, value) ==
    IF \E n \in 1..Len(map) : map[n].name = key
    THEN [n \in 1..Len(map) |->
            IF map[n].name = key THEN [name |-> key, digest |-> value] ELSE map[n]]
    ELSE Append(map, [name |-> key, digest |-> value])

-----------------------------------------------------------------------------
(* execute *)

InitOver(alphabet, n) ==
    /\ csv \in Texts(alphabet, n)
    /\ csv0 = csv
    /\ pc = "collect"
    /\ prefix_idx = 1
    /\ images = <<>>
    /\ i = 1
    /\ img_map = <<>>
    /\ csv_content = <<>>
    /\ log = <<>>
    /\ inserted = <<>>

Init == InitOver(Alphabet, MaxLen)

\* for prefix in IMAGE_PREFIXES: images.extend(collect_images(repo_root, prefix))
Collect ==
    /\ pc = "collect"
    /\ prefix_idx <= Len(IMAGE_PREFIXES)
    /\ images' = images \o collect_images(csv, IMAGE_PREFIXES[prefix_idx])
    /\ prefix_idx' = prefix_idx + 1
    /\ UNCHANGED <<csv, csv0, pc, i, img_map, csv_content, log, inserted>>

CollectDone ==
    /\ pc = "collect"
    /\ prefix_idx > Len(IMAGE_PREFIXES)
    /\ pc' = "pull_images"
    /\ i' = 1
    /\ UNCHANGED <<csv, csv0, prefix_idx, images, img_map, csv_content, log, inserted>>

\* docker_client.api.pull(img) returns
Pull ==
    /\ pc = "pull_images"
    /\ i <= Len(images)
    /\ log' = Append(log, <<"pull", images[i]>>)
    /\ i' = i + 1
    /\ UNCHANGED <<csv, csv0, pc, prefix_idx, images, img_map, csv_content, inserted>>

\* docker_client.api.pull(img) raises
PullFails ==
    /\ pc = "pull_images"
    /\ i <= Len(images)
    /\ log' = Append(log, <<"pull", images[i]>>)
    /\ pc' = "failed"
    /\ UNCHANGED <<csv, csv0, prefix_idx, images, i, img_map, csv_content, inserted>>

PullDone ==
    /\ pc = "pull_images"
    /\ i > Len(images)
    /\ pc' = "create_image_map"
    /\ i' = 1
    /\ UNCHANGED <<csv, csv0, prefix_idx, images, img_map, csv_content, log, inserted>>

\* a builder that skips a reference it cannot resolve
GetFailsSkips ==
    /\ pc = "create_image_map"
    /\ i <= Len(images)
    /\ log' = Append(log, <<"get", images[i]>>)
    /\ i' = i + 1
    /\ UNCHANGED <<csv, csv0, pc, prefix_idx, images, img_map, csv_content, inserted>>

\* docker_client.images.get(img_name) raises
GetFails ==
    /\ pc = "create_image_map"
    /\ i <= Len(images)
    /\ log' = Append(log, <<"get", images[i]>>)
    /\ pc' = "failed"
    /\ UNCHANGED <<csv, csv0, prefix_idx, images, i, img_map, csv_content, inserted>>

\* one iteration of create_image_map for an image the store holds:
\* all_digests[0] raises when the list is empty
GetDigest(all_digests) ==
    /\ pc = "create_image_map"
    /\ i <= Len(images)
    /\ log' = Append(log, <<"get", images[i]>>)
    /\ IF Len(all_digests) = 0 \/ ~HasSecondPiece(all_digests[1], AT)
       THEN /\ pc' = "failed"
            /\ UNCHANGED <<i, img_map>>
       ELSE /\ img_map' = DictSet(img_map, images[i], SecondPiece(all_digests[1], AT))
            /\ i' = i + 1
            /\ UNCHANGED pc
    /\ UNCHANGED <<csv, csv0, prefix_idx, images, csv_content, inserted>>

CreateImageMap == \E all_digests \in RepoDigestsChoices : GetDigest(all_digests)

\* create_image_map returns; replace_images reads the file
ReadCsv ==
    /\ pc = "create_image_map"
    /\ i > Len(images)
    /\ pc' = "replace_images"
    /\ i' = 1
    /\ csv_content' = csv
    /\ inserted' = [n \in 1..Len(csv) |-> FALSE]
    /\ UNCHANGED <<csv, csv0, prefix_idx, images, img_map, log>>

\* one iteration of the loop of replace_images
ReplaceStep ==
    /\ pc = "replace_images"
    /\ i <= Len(img_map)
    /\ csv_content' = ReplaceEntry(csv_content, img_map[i].name, img_map[i].digest)
    /\ inserted' = MarkEntry(csv_content, inserted, img_map[i].name, img_map[i].digest)
    /\ i' = i + 1
    /\ UNCHANGED <<csv, csv0, pc, prefix_idx, images, img_map, log>>

\* file.write(csv_content)
WriteCsv ==
    /\ pc = "replace_images"
    /\ i > Len(img_map)
    /\ csv' = csv_content
    /\ pc' = "build_index_image"
    /\ UNCHANGED <<csv0, prefix_idx, images, i, img_map, csv_content, log, inserted>>

\* build_index_image
Build ==
    /\ pc = "build_index_image"
    /\ log' = Append(log, <<"build", csv>>)
    /\ pc' = "done"
    /\ UNCHANGED <<csv, csv0, prefix_idx, images, i, img_map, csv_content, inserted>>

Next ==
    \/ Collect
    \/ CollectDone
    \/ Pull
    \/ PullFails
    \/ PullDone
    \/ GetFails
    \/ CreateImageMap
    \/ ReadCsv
    \/ ReplaceStep
    \/ WriteCsv
    \/ Build

Spec == Init /\ [][Next]_vars

\* the scan alone: execute up to the end of its loop over the prefixes
NextCollect ==
    \/ Collect
    \/ CollectDone

SpecCollect == Init /\ [][NextCollect]_vars

\* manifests of one image family with quoted values, longer
InitQuoted == InitOver(QuotedAlphabet, MaxLenQuoted)
SpecQuoted == InitQuoted /\ [][Next]_vars

\* manifests in which references may already carry a digest
InitPinned == InitOver(PinnedAlphabet, MaxLenPinned)
SpecPinned == InitPinned /\ [][Next]_vars

-----------------------------------------------------------------------------
(* Vocabulary of the properties *)

Range(seq) == {seq[n] : n \in 1..Len(seq)}

\* s begins with p
StartsWith(s, p) == MatchAt(s, p, 1)

\* the number of places where sub occurs in s
Count(s, sub) == Cardinality({k \in 1..Len(s) : MatchAt(s, sub, k)})

\* the number of calls of one kind made for a reference
Calls(kind, ref) == Cardinality({n \in 1..Len(log) : log[n] = <<kind, ref>>})

\* the digest the map holds for a reference
HasDigest(ref) == \E n \in 1..Len(img_map) : img_map[n].name = ref
DigestOf(ref) == img_map[CHOOSE n \in 1..Len(img_map) : img_map[n].name = ref].digest

\* the file has been written
Written == pc \in {"build_index_image", "done"}

\* C4: all-or-nothing on resolution failure.  A run in which a pull or a
\* digest read-back failed leaves the manifest file as it was, and the file
\* is written only when every reference of the working list has been pulled,
\* read back and given a digest in the map.
AllOrNothing ==
    /\ pc = "failed" => csv = csv0
    /\ ~Written => csv = csv0
    /\ Written => \A r \in Range(images) :
                    /\ HasDigest(r)
                    /\ Calls("pull", r) >= 1
                    /\ Calls("get", r) >= 1

\* a run that resolved one reference, failed on a later one, and would have
\* changed the file with the digest it already had
AllOrNothingWitness ==
    /\ pc = "failed"
    /\ Len(img_map) >= 1
    /\ RewriteAll(csv, img_map) # csv
    /\ csv = csv0

\* C7 as stated: every reference of the working list starts with exactly one
\* configured prefix, holds no whitespace and does not end with a quote.
StartsWithOnePrefix(r) ==
    Cardinality({n \in 1..Len(IMAGE_PREFIXES) : StartsWith(r, IMAGE_PREFIXES[n])}) = 1

ImageReferenceInvariant ==
    \A r \in Range(images) :
        /\ StartsWithOnePrefix(r)
        /\ \A n \in 1..Len(r) : ~IsSpace(r[n])
        /\ ~EndsWith(r, <<QUOTE>>)

\* C7 amended: every reference of the working list starts with exactly one
\* configured prefix and holds no newline.
ImageReferenceShape ==
    \A r \in Range(images) :
        /\ StartsWithOnePrefix(r)
        /\ \A n \in 1..Len(r) : r[n] # NL

\* the working list holds two references, one with a blank inside, taken
\* from lines that ended in a newline
ImageReferenceWitness ==
    /\ pc = "pull_images"
    /\ Len(images) >= 2
    /\ \E r \in Range(images) : \E n \in 1..Len(r) : r[n] = SPACE
    /\ csv # <<>> /\ csv[Len(csv)] = NL

\* C8 as stated: in any run that has ended, every reference of the working
\* list was pulled exactly once and read back exactly once.
ResolvedOnceInAnyRun ==
    pc \in {"done", "failed"} =>
        \A r \in Range(images) : Calls("pull", r) = 1 /\ Calls("get", r) = 1

\* C8 amended: no reference is pulled or read back twice, a read-back comes
\* after the pull of the same reference, only references of the working list
\* are resolved, and in a run that did not abort every reference of the
\* working list is pulled exactly once and read back exactly once.
ResolvedOnce ==
    /\ \A n \in 1..Len(images) : \A m \in 1..Len(images) :
            images[n] = images[m] => n = m
    /\ \A n \in 1..Len(log) :
            log[n][1] \in {"pull", "get"} =>
                /\ log[n][2] \in Range(images)
                /\ Calls(log[n][1], log[n][2]) = 1
                /\ log[n][1] = "get" =>
                        \E m \in 1..(n - 1) : log[m] = <<"pull", log[n][2]>>
    /\ pc \in {"replace_images", "build_index_image", "done"} =>
            \A r \in Range(images) : Calls("pull", r) = 1 /\ Calls("get", r) = 1

\* a finished run over two references of different prefixes
ResolvedOnceWitness ==
    /\ pc = "done"
    /\ Len(images) >= 2
    /\ \E r \in Range(images) : StartsWith(r, IMAGE_PREFIXES[2])
    /\ \E r \in Range(images) : StartsWith(r, IMAGE_PREFIXES[1])

\* s.split("\n")
RECURSIVE Pieces(_)
Pieces(s) ==
    LET k == Find(s, <<NL>>)
    IN IF k = 0 THEN <<s>>
       ELSE <<SubSeq(s, 1, k - 1)>> \o Pieces(SubSeq(s, k + 1, Len(s)))

\* "\n".join(pieces)
RECURSIVE Join(_)
Join(pieces) ==
    IF Len(pieces) = 1 THEN pieces[1]
    ELSE pieces[1] \o <<NL>> \o Join(Tail(pieces))

\* the lines n and n + 1 exchanged
SwapAt(pieces, n) ==
    [m \in 1..Len(pieces) |->
        IF m = n THEN pieces[n + 1] ELSE IF m = n + 1 THEN pieces[n] ELSE pieces[m]]

\* line n repeated: times more copies of it right after it
RepeatAt(pieces, n, times) ==
    SubSeq(pieces, 1, n) \o [m \in 1..times |-> pieces[n]]
        \o SubSeq(pieces, n + 1, Len(pieces))

\* the texts with two adjacent lines of text exchanged or one line repeated;
\* exchanges of adjacent lines generate every reordering, and an exchange
\* keeps the length of the text
MaxRepeat == 2

Variants(text) ==
    LET pieces == Pieces(text)
    IN {Join(SwapAt(pieces, n)) : n \in 1..(Len(pieces) - 1)}
       \cup {Join(RepeatAt(pieces, n, t)) : n \in 1..Len(pieces), t \in 1..MaxRepeat}

\* the part of the working list the call for prefix m returned
RECURSIVE LenBefore(_)
LenBefore(m) ==
    IF m = 1 THEN 0
    ELSE LenBefore(m - 1) + Len(collect_images(csv, IMAGE_PREFIXES[m - 1]))

Returned(m) ==
    SubSeq(images, LenBefore(m) + 1,
           LenBefore(m) + Len(collect_images(csv, IMAGE_PREFIXES[m])))

\* C9: deterministic deduplication.  The list collect_images has just
\* returned for a prefix holds no entry twice, ascends in the order of Python
\* strings, holds exactly the references extracted from the lines, and is the
\* list returned for the text with lines exchanged or repeated.
DedupeDeterministic ==
    (pc = "collect" /\ prefix_idx > 1) =>
        LET m == prefix_idx - 1
            got == Returned(m)
            raw == RawImages(ReadLines(csv), IMAGE_PREFIXES[m])
        IN /\ \A a \in 1..Len(got) : \A b \in 1..Len(got) :
                    got[a] = got[b] => a = b
           /\ \A a \in 1..(Len(got) - 1) : Less(got[a], got[a + 1])
           /\ Range(got) = Range(raw)
           /\ \A v \in Variants(csv) :
                    collect_images(v, IMAGE_PREFIXES[m]) = got

\* the first call returned two references from three lines, two of them
\* alike, or from lines that were not in ascending order
DedupeWitness ==
    /\ pc = "collect"
    /\ prefix_idx = 2
    /\ Len(images) >= 2
    /\ RawImages(ReadLines(csv), IMAGE_PREFIXES[1]) # images

\* new is orig with strings "@<digest of an entry>" inserted, each one right
\* after an occurrence of that entry's reference; a and b are the positions
\* reached in orig and new
RECURSIVE InsertionsOnly(_, _, _, _, _)
InsertionsOnly(orig, new, entries, a, b) ==
    IF b > Len(new) THEN a > Len(orig)
    ELSE \/ /\ a <= Len(orig)
            /\ orig[a] = new[b]
            /\ InsertionsOnly(orig, new, entries, a + 1, b + 1)
         \/ \E n \in 1..Len(entries) :
                /\ MatchAt(new, <<AT>> \o entries[n].digest, b)
                /\ MatchAt(new, entries[n].name, b - Len(entries[n].name))
                /\ InsertionsOnly(orig, new, entries, a, b + 1 + Len(entries[n].digest))

\* C10: frame of the rewrite.  The text replace_images holds, and then
\* writes, is the text it read with "@<digest>" strings of the entries
\* processed inserted right after occurrences of their references, and
\* nothing else changed; with an empty map the text written is the text read.
RewriteFrame ==
    /\ pc = "replace_images" =>
            InsertionsOnly(csv, csv_content, SubSeq(img_map, 1, i - 1), 1, 1)
    /\ Written =>
            /\ InsertionsOnly(csv0, csv, img_map, 1, 1)
            /\ img_map = <<>> => csv = csv0

\* a written file in which a quoted reference and a reference at the end of
\* a line were pinned
RewriteFrameWitness ==
    /\ Written
    /\ Len(img_map) >= 2
    /\ \E n \in 1..Len(img_map) :
            Contains(csv, QuotedNew(img_map[n].name, img_map[n].digest))
    /\ \E n \in 1..Len(img_map) :
            Contains(csv, EolNew(img_map[n].name, img_map[n].digest))

\* a is a strict prefix of b
StrictPrefix(a, b) == Len(a) < Len(b) /\ StartsWith(b, a)

\* every occurrence of the reference of entry e that the text read held
\* between quotes or before a newline stands in the text written with the
\* digest of e
PinnedWhereAnchored(e) ==
    /\ Count(csv, QuotedNew(e.name, e.digest)) = Count(csv0, QuotedOld(e.name))
    /\ Count(csv, EolNew(e.name, e.digest)) = Count(csv0, EolOld(e.name))

\* C1: substring-safety.  Once the file is written, for two entries of the
\* map of which the first reference is a strict prefix of the second, the
\* anchored occurrences of each stand with their own digest, and no
\* occurrence of the longer one is followed by the digest of the shorter one.
SubstringSafety ==
    Written =>
        \A a \in 1..Len(img_map) : \A b \in 1..Len(img_map) :
            StrictPrefix(img_map[a].name, img_map[b].name) =>
                /\ PinnedWhereAnchored(img_map[a])
                /\ PinnedWhereAnchored(img_map[b])
                /\ img_map[a].digest # img_map[b].digest =>
                        ~Contains(csv, img_map[b].name \o <<AT>> \o img_map[a].digest)

\* the entries of a map in another order
Orders(n) ==
    {f \in [1..n -> 1..n] : \A a \in 1..n : \A b \in 1..n : f[a] = f[b] => a = b}
Permuted(entries, f) == [n \in 1..Len(entries) |-> entries[f[n]]]

\* C2: order-independence.  When replace_images has read the file, the loop
\* over the entries of the map gives the same text for every order of the
\* entries.
OrderIndependence ==
    (pc = "replace_images" /\ i = 1) =>
        \A f \in Orders(Len(img_map)) :
            RewriteAll(csv_content, Permuted(img_map, f)) = RewriteAll(csv_content, img_map)

\* C3: no occurrence is replaced more than once.  No inserted "@<digest>"
\* stands right after another inserted "@<digest>": the reference a
\* replacement matched never ends in characters an earlier replacement
\* of the same rewrite inserted.
ReplacedAtMostOnce ==
    pc \in {"replace_images", "build_index_image", "done"} =>
        \A n \in 2..Len(csv_content) :
            (inserted[n] /\ csv_content[n] = AT) => ~inserted[n - 1]

\* C5: complete pinning.  Once the file is written, every line from which a
\* reference was extracted holds that reference followed by "@" and its
\* digest.
CompletePinning ==
    Written =>
        \A m \in 1..Len(IMAGE_PREFIXES) :
            \A n \in 1..Len(ReadLines(csv0)) :
                Contains(Strip(ReadLines(csv0)[n]), IMAGE_PREFIXES[m]) =>
                    LET r == ImageOfLine(ReadLines(csv0)[n], IMAGE_PREFIXES[m])
                    IN Contains(ReadLines(csv)[n], r \o <<AT>> \o DigestOf(r))

\* C6: idempotence.  Once the file is written, the loop of replace_images
\* over the same map leaves the text written as it is.
RewriteIdempotent ==
    Written => RewriteAll(csv, img_map) = csv

====
